---- MODULE Spec2Model ----
(***************************************************************************)
(* A model of the B-tree slice controller (src/src/btree/slice.cc): the    *)
(* superblock and its replication metadata, the order checkpoint in front  *)
(* of the storage algorithms, the mutation dispatch of change(), and the   *)
(* home-thread discipline of the accessors.                                *)
(***************************************************************************)
EXTENDS Integers, Sequences, FiniteSets, TLC

\* ------------------------------------------------------------------ bounds

\* Calls made over one run (each call draws at most one order token).
MaxCalls == 3
\* Timestamps are 0 .. MaxTime.
MaxTime == 2
\* Stored values hold at most MaxValueLen bytes.
MaxValueLen == 2
\* The largest value handed to the versioned archive functions.
MaxArchived == 300

\* ------------------------------------------------------------- basic sets

Tasks == {"t1", "t2", "t3"}
NoTask == "none"

\* Execution contexts: the cache's home thread and one other thread.
home_thread == "home"
Threads == {"home", "other"}

\* Two order sources feeding the slice's checkpoint.
Sources == {"s1", "s2"}

Timestamps == 0 .. MaxTime
\* Master and slave ids: 0 is "unbound", 1 is some peer.
Ids == {0, 1}

Max(a, b) == IF a < b THEN b ELSE a

\* repli_timestamp_t::distant_past, the oldest possible timestamp.
distant_past == 0

\* btree_superblock_t::expected_magic, and what a block holds otherwise.
expected_magic == "expected_magic"
Magics == {"expected_magic", "zero", "junk"}

\* NULL_BLOCK_ID, the empty-tree sentinel, among the root block ids.
NULL_BLOCK_ID == "NULL_BLOCK_ID"

\* ------------------------------------------------------------- key ranges

\* Keys are byte strings; 97 is "a", 107 is "k", 122 is "z".
key_range_open == "open"
key_range_closed == "closed"

\* key_range_t(left mode, left key, right mode, right key)
key_range_t(lm, lk, rm, rk) ==
    [left_mode |-> lm, left |-> lk, right_mode |-> rm, right |-> rk]

\* create(cache) without a key range: open on both sides, empty keys.
all_keys == key_range_t(key_range_open, <<>>, key_range_open, <<>>)

KeyRanges ==
    { all_keys,
      key_range_t(key_range_closed, <<97>>, key_range_open, <<122>>) }

ModeByte(m) == IF m = key_range_open THEN 0 ELSE 1
ByteMode(b) == IF b = 0 THEN key_range_open ELSE key_range_closed

\* meta_key_archive << key_range: each bound as its mode byte, the key's
\* length and the key's bytes.
SerializeKeyRange(kr) ==
    <<ModeByte(kr.left_mode), Len(kr.left)>> \o kr.left
        \o <<ModeByte(kr.right_mode), Len(kr.right)>> \o kr.right

\* The decoder of that encoding.
DeserializeKeyRange(bytes) ==
    LET ll == bytes[2]
        rl == bytes[4 + ll]
    IN  key_range_t(ByteMode(bytes[1]), SubSeq(bytes, 3, 2 + ll),
                    ByteMode(bytes[3 + ll]), SubSeq(bytes, 5 + ll, 4 + ll + rl))

\* set_superblock_metainfo(txn, superblock, key, value): the value of an
\* entry with that key is replaced, a new key is appended.
set_superblock_metainfo(blob, key, value) ==
    IF \E i \in 1 .. Len(blob) : blob[i].key = key
    THEN [i \in 1 .. Len(blob) |->
             IF blob[i].key = key THEN [key |-> key, value |-> value] ELSE blob[i]]
    ELSE Append(blob, [key |-> key, value |-> value])

\* ------------------------------------------------------------- superblock

\* bzero(sb, block size): every field zero, the metainfo blob empty.
ZeroedSuperblock ==
    [ magic |-> "zero", root_block |-> "zero",
      replication_clock |-> 0, last_sync |-> 0,
      replication_master_id |-> 0, replication_slave_id |-> 0,
      metainfo_blob |-> <<>> ]

\* create() with the assignment of root_block left out.
CreateSuperblockNoRoot(key_range) ==
    LET stamped == [ZeroedSuperblock EXCEPT !.magic = expected_magic]
    IN  [stamped EXCEPT !.metainfo_blob =
            set_superblock_metainfo(stamped.metainfo_blob,
                                    SerializeKeyRange(key_range), <<>>)]

\* The body of create() between taking the lock and leaving the scope.
CreateSuperblock(key_range) ==
    LET zeroed == ZeroedSuperblock
        stamped == [zeroed EXCEPT !.magic = expected_magic,
                                  !.root_block = NULL_BLOCK_ID,
                                  !.replication_clock = distant_past,
                                  !.last_sync = distant_past,
                                  !.replication_master_id = 0,
                                  !.replication_slave_id = 0]
    IN  [stamped EXCEPT !.metainfo_blob =
            set_superblock_metainfo(stamped.metainfo_blob,
                                    SerializeKeyRange(key_range), <<>>)]

\* What the superblock block may hold before create() or before a slice is
\* opened on it: a shard written by an earlier run, and a block that holds
\* something else (never created, or damaged).
InitialBlocks ==
    { [ magic |-> expected_magic, root_block |-> "block7",
        replication_clock |-> 1, last_sync |-> 1,
        replication_master_id |-> 1, replication_slave_id |-> 1,
        metainfo_blob |-> <<[key |-> SerializeKeyRange(all_keys), value |-> <<>>]>> ],
      [ magic |-> "junk", root_block |-> "block7",
        replication_clock |-> MaxTime, last_sync |-> 1,
        replication_master_id |-> 1, replication_slave_id |-> 0,
        metainfo_blob |-> <<>> ] }


\* ------------------------------------------------------------ mutations

\* The keys and values of the store: "k" is <<107>>, "v" is <<118>>, "1" is
\* <<49>>.
Keys == {<<107>>}
Values == {<<118>>, <<49>>}

\* castime_t: a proposed cas and a timestamp.
Castimes == {[proposed_cas |-> 1, timestamp |-> MaxTime],
             [proposed_cas |-> 2, timestamp |-> 1]}

get_cas_mutation_t(key) == [tag |-> "get_cas", key |-> key]

sarc_mutation_t(key, data, flags, exptime, add_policy, replace_policy, old_cas) ==
    [tag |-> "sarc", key |-> key, data |-> data, flags |-> flags,
     exptime |-> exptime, add_policy |-> add_policy,
     replace_policy |-> replace_policy, old_cas |-> old_cas]

incr_decr_mutation_t(kind, key, amount) ==
    [tag |-> "incr_decr", kind |-> kind, key |-> key, amount |-> amount]

append_prepend_mutation_t(kind, key, data) ==
    [tag |-> "append_prepend", kind |-> kind, key |-> key, data |-> data]

delete_mutation_t(key, dont_put_in_delete_queue) ==
    [tag |-> "delete", key |-> key,
     dont_put_in_delete_queue |-> dont_put_in_delete_queue]

\* The alternatives of mutation_t::mutation.
GetCasMutations == {get_cas_mutation_t(k) : k \in Keys}
SarcMutations ==
    {sarc_mutation_t(k, d, 0, 0, ap, rp, oc) :
        k \in Keys, d \in Values,
        ap \in {"add_policy_yes", "add_policy_no"},
        rp \in {"replace_policy_yes", "replace_policy_no",
                "replace_policy_if_cas_matches"},
        oc \in {1, 2}}
IncrDecrMutations ==
    {incr_decr_mutation_t(kd, k, a) :
        kd \in {"incr_decr_INCR", "incr_decr_DECR"}, k \in Keys, a \in {1, 2}}
AppendPrependMutations ==
    {append_prepend_mutation_t(kd, k, d) :
        kd \in {"append_prepend_APPEND", "append_prepend_PREPEND"},
        k \in Keys, d \in Values}
DeleteMutations == {delete_mutation_t(k, q) : k \in Keys, q \in BOOLEAN}

\* The first visitor with a delete handed to btree_get_cas.
ChangeVisitorCallDeleteAsGetCas(m, ct) ==
    CASE m.tag = "get_cas" ->
            [alg |-> "btree_get_cas", args |-> [key |-> m.key, castime |-> ct]]
      [] m.tag = "sarc" ->
            [alg |-> "btree_set",
             args |-> [key |-> m.key, data |-> m.data, flags |-> m.flags,
                       exptime |-> m.exptime, add_policy |-> m.add_policy,
                       replace_policy |-> m.replace_policy,
                       old_cas |-> m.old_cas, castime |-> ct]]
      [] m.tag = "incr_decr" ->
            [alg |-> "btree_incr_decr",
             args |-> [key |-> m.key, increment |-> (m.kind = "incr_decr_INCR"),
                       amount |-> m.amount, castime |-> ct]]
      [] m.tag = "append_prepend" ->
            [alg |-> "btree_append_prepend",
             args |-> [key |-> m.key, data |-> m.data,
                       append |-> (m.kind = "append_prepend_APPEND"),
                       castime |-> ct]]
      [] m.tag = "delete" ->
            [alg |-> "btree_get_cas", args |-> [key |-> m.key, castime |-> ct]]

\* The two visitors of change(): the B-tree function each alternative is
\* handed to and the arguments it is handed, first with a sequence group and
\* an order token, then with the caller's transaction and superblock.
ChangeVisitorCall(m, ct) ==
    CASE m.tag = "get_cas" ->
            [alg |-> "btree_get_cas", args |-> [key |-> m.key, castime |-> ct]]
      [] m.tag = "sarc" ->
            [alg |-> "btree_set",
             args |-> [key |-> m.key, data |-> m.data, flags |-> m.flags,
                       exptime |-> m.exptime, add_policy |-> m.add_policy,
                       replace_policy |-> m.replace_policy,
                       old_cas |-> m.old_cas, castime |-> ct]]
      [] m.tag = "incr_decr" ->
            [alg |-> "btree_incr_decr",
             args |-> [key |-> m.key, increment |-> (m.kind = "incr_decr_INCR"),
                       amount |-> m.amount, castime |-> ct]]
      [] m.tag = "append_prepend" ->
            [alg |-> "btree_append_prepend",
             args |-> [key |-> m.key, data |-> m.data,
                       append |-> (m.kind = "append_prepend_APPEND"),
                       castime |-> ct]]
      [] m.tag = "delete" ->
            [alg |-> "btree_delete",
             args |-> [key |-> m.key,
                       dont_put_in_delete_queue |-> m.dont_put_in_delete_queue,
                       timestamp |-> ct.timestamp]]

btree_slice_change_visitor_t(m, seq_group, ct, order_token) ==
    [alg |-> ChangeVisitorCall(m, ct).alg,
     args |-> ChangeVisitorCall(m, ct).args,
     via |-> [seq_group |-> seq_group, order_token |-> order_token]]

\* The second visitor with a delete handed the proposed cas for the
\* timestamp, and an increment handed as a decrement.
ChangeWithSuperblockVisitorCallSlip(m, ct) ==
    CASE m.tag = "get_cas" ->
            [alg |-> "btree_get_cas", args |-> [key |-> m.key, castime |-> ct]]
      [] m.tag = "sarc" ->
            [alg |-> "btree_set",
             args |-> [key |-> m.key, data |-> m.data, flags |-> m.flags,
                       exptime |-> m.exptime, add_policy |-> m.add_policy,
                       replace_policy |-> m.replace_policy,
                       old_cas |-> m.old_cas, castime |-> ct]]
      [] m.tag = "incr_decr" ->
            [alg |-> "btree_incr_decr",
             args |-> [key |-> m.key, increment |-> (m.kind = "incr_decr_DECR"),
                       amount |-> m.amount, castime |-> ct]]
      [] m.tag = "append_prepend" ->
            [alg |-> "btree_append_prepend",
             args |-> [key |-> m.key, data |-> m.data,
                       append |-> (m.kind = "append_prepend_APPEND"),
                       castime |-> ct]]
      [] m.tag = "delete" ->
            [alg |-> "btree_delete",
             args |-> [key |-> m.key,
                       dont_put_in_delete_queue |-> m.dont_put_in_delete_queue,
                       timestamp |-> ct.proposed_cas]]

ChangeWithSuperblockVisitorCall(m, ct) ==
    CASE m.tag = "get_cas" ->
            [alg |-> "btree_get_cas", args |-> [key |-> m.key, castime |-> ct]]
      [] m.tag = "sarc" ->
            [alg |-> "btree_set",
             args |-> [key |-> m.key, data |-> m.data, flags |-> m.flags,
                       exptime |-> m.exptime, add_policy |-> m.add_policy,
                       replace_policy |-> m.replace_policy,
                       old_cas |-> m.old_cas, castime |-> ct]]
      [] m.tag = "incr_decr" ->
            [alg |-> "btree_incr_decr",
             args |-> [key |-> m.key, increment |-> (m.kind = "incr_decr_INCR"),
                       amount |-> m.amount, castime |-> ct]]
      [] m.tag = "append_prepend" ->
            [alg |-> "btree_append_prepend",
             args |-> [key |-> m.key, data |-> m.data,
                       append |-> (m.kind = "append_prepend_APPEND"),
                       castime |-> ct]]
      [] m.tag = "delete" ->
            [alg |-> "btree_delete",
             args |-> [key |-> m.key,
                       dont_put_in_delete_queue |-> m.dont_put_in_delete_queue,
                       timestamp |-> ct.timestamp]]

btree_slice_change_with_superblock_visitor_t(m, ct, transaction, superblock) ==
    [alg |-> ChangeWithSuperblockVisitorCall(m, ct).alg,
     args |-> ChangeWithSuperblockVisitorCall(m, ct).args,
     via |-> [txn |-> transaction, superblock |-> superblock]]

\* mutation_result_t(r): the variant holds the result type of the function.
ResultTypeOf(alg) ==
    CASE alg = "btree_get_cas" -> "get_result_t"
      [] alg = "btree_set" -> "set_result_t"
      [] alg = "btree_incr_decr" -> "incr_decr_result_t"
      [] alg = "btree_append_prepend" -> "append_prepend_result_t"
      [] alg = "btree_delete" -> "delete_result_t"

mutation_result_t(alg, r) ==
    [kind |-> "mutation_result_t", which |-> ResultTypeOf(alg), result |-> r]

\* ------------------------------------------------- the B-tree functions

\* The store behind the slice: per key, whether it is there, its value, its
\* cas and the timestamp of its last change.
NoValue == [present |-> FALSE, data |-> <<>>, cas |-> 0, recency |-> 0]
Stored(data, ct) ==
    [present |-> TRUE, data |-> data, cas |-> ct.proposed_cas,
     recency |-> ct.timestamp]

IsNumeric(d) == Len(d) > 0 /\ \A i \in 1 .. Len(d) : d[i] \in 48 .. 57

RECURSIVE ParseNumber(_)
ParseNumber(d) ==
    IF d = <<>> THEN 0
    ELSE 10 * ParseNumber(SubSeq(d, 1, Len(d) - 1)) + (d[Len(d)] - 48)

RECURSIVE FormatNumber(_)
FormatNumber(n) ==
    IF n < 10 THEN <<48 + n>>
    ELSE FormatNumber(n \div 10) \o <<48 + (n % 10)>>

\* Keys are compared by their first byte; the empty key is below all.
KeyLess(a, b) ==
    IF b = <<>> THEN FALSE ELSE IF a = <<>> THEN TRUE ELSE a[1] < b[1]

InRange(k, left_mode, left_key, right_mode, right_key) ==
    /\ CASE left_mode = "open" -> KeyLess(left_key, k)
          [] left_mode = "closed" -> ~KeyLess(k, left_key)
          [] OTHER -> TRUE
    /\ CASE right_mode = "open" -> KeyLess(k, right_key)
          [] right_mode = "closed" -> ~KeyLess(right_key, k)
          [] OTHER -> TRUE

btree_get(a, st) ==
    [result |-> IF st[a.key].present
                THEN [found |-> TRUE, value |-> st[a.key].data]
                ELSE [found |-> FALSE, value |-> <<>>],
     store |-> st]

btree_get_cas(a, st) ==
    [result |-> IF st[a.key].present
                THEN [found |-> TRUE, value |-> st[a.key].data, cas |-> st[a.key].cas]
                ELSE [found |-> FALSE, value |-> <<>>, cas |-> 0],
     store |-> st]

btree_set(a, st) ==
    LET old == st[a.key]
        res == IF ~old.present
               THEN IF a.add_policy = "add_policy_yes" THEN "sr_stored"
                    ELSE "sr_didnt_add"
               ELSE IF a.replace_policy = "replace_policy_yes" THEN "sr_stored"
                    ELSE IF a.replace_policy = "replace_policy_no"
                         THEN "sr_didnt_replace"
                    ELSE IF old.cas = a.old_cas THEN "sr_stored"
                    ELSE "sr_didnt_replace"
    IN  [result |-> res,
         store |-> IF res = "sr_stored"
                   THEN [st EXCEPT ![a.key] = Stored(a.data, a.castime)]
                   ELSE st]

btree_incr_decr(a, st) ==
    LET old == st[a.key]
        n == ParseNumber(old.data)
        new == IF a.increment THEN n + a.amount
               ELSE IF a.amount > n THEN 0 ELSE n - a.amount
    IN  IF ~old.present
        THEN [result |-> [res |-> "idr_not_found", new_value |-> 0], store |-> st]
        ELSE IF ~IsNumeric(old.data)
        THEN [result |-> [res |-> "idr_not_numeric", new_value |-> 0], store |-> st]
        ELSE [result |-> [res |-> "idr_success", new_value |-> new],
              store |-> [st EXCEPT ![a.key] = Stored(FormatNumber(new), a.castime)]]

btree_append_prepend(a, st) ==
    LET old == st[a.key]
        new == IF a.append THEN old.data \o a.data ELSE a.data \o old.data
    IN  IF ~old.present THEN [result |-> "apr_not_found", store |-> st]
        ELSE IF Len(new) > MaxValueLen THEN [result |-> "apr_too_large", store |-> st]
        ELSE [result |-> "apr_success",
              store |-> [st EXCEPT ![a.key] = Stored(new, a.castime)]]

btree_delete(a, st) ==
    IF st[a.key].present
    THEN [result |-> "dr_deleted", store |-> [st EXCEPT ![a.key] = NoValue]]
    ELSE [result |-> "dr_not_found", store |-> st]

btree_rget_slice(a, st) ==
    [result |-> {k \in DOMAIN st :
                    st[k].present
                    /\ InRange(k, a.left_mode, a.left_key, a.right_mode, a.right_key)},
     store |-> st]

\* The keys in the range changed at or after since_when go to the callback.
btree_backfill(a, st) ==
    [result |-> {k \in DOMAIN st :
                    /\ st[k].present
                    /\ st[k].recency >= a.since_when
                    /\ InRange(k, a.key_range.left_mode, a.key_range.left,
                               a.key_range.right_mode, a.key_range.right)},
     store |-> st]

\* The keys in (left_key_exclusive, right_key_inclusive] the tester accepts
\* are erased.
btree_erase_range(a, st) ==
    [result |-> "done",
     store |-> [k \in DOMAIN st |->
                  IF /\ a.tester = "key_in_range"
                     /\ InRange(k, IF a.left_key_supplied THEN "open" ELSE "none",
                                a.left_key_exclusive,
                                IF a.right_key_supplied THEN "closed" ELSE "none",
                                a.right_key_inclusive)
                  THEN NoValue ELSE st[k]]]

\* The function a call names, run on the store.
RunAlgorithm(call, st) ==
    CASE call.alg = "btree_get" -> btree_get(call.args, st)
      [] call.alg = "btree_rget_slice" -> btree_rget_slice(call.args, st)
      [] call.alg = "btree_get_cas" -> btree_get_cas(call.args, st)
      [] call.alg = "btree_set" -> btree_set(call.args, st)
      [] call.alg = "btree_incr_decr" -> btree_incr_decr(call.args, st)
      [] call.alg = "btree_append_prepend" -> btree_append_prepend(call.args, st)
      [] call.alg = "btree_delete" -> btree_delete(call.args, st)
      [] call.alg = "btree_backfill" -> btree_backfill(call.args, st)
      [] call.alg = "btree_erase_range" -> btree_erase_range(call.args, st)

\* Whether the function changes the tree (and so takes the superblock for
\* write).
AlgorithmWrites(alg) ==
    alg \in {"btree_get_cas", "btree_set", "btree_incr_decr",
             "btree_append_prepend", "btree_delete", "btree_erase_range"}

\* ---------------------------------------------------------- operations

\* The replication-metadata accessors of the slice.
Setters == {"set_replication_clock", "set_last_sync",
            "set_replication_master_id", "set_replication_slave_id"}
Getters == {"get_replication_clock", "get_last_sync",
            "get_replication_master_id", "get_replication_slave_id"}
Accessors == Setters \cup Getters

\* The storage operations that take a sequence group and an order token.
TokenDataOps == {"get", "rget", "change", "backfill", "backfill_delete_range"}

\* Their overloads that take the caller's transaction and superblock.
SuperblockDataOps ==
    {"get_with_superblock", "rget_with_superblock", "change_with_superblock",
     "backfill_with_superblock", "backfill_delete_range_with_superblock"}

\* Every operation whose signature has an order_token_t parameter.
TokenCarrying == TokenDataOps \cup {"set_replication_clock", "set_last_sync"}

\* get_last_sync beginning with assert_thread() instead of on_thread_t.
ThreadEntryGetLastSyncAsserts(name) ==
    CASE name \in TokenDataOps -> "assert_thread"
      [] name \in SuperblockDataOps \ {"backfill_with_superblock"} -> "assert_thread"
      [] name \in {"set_replication_clock", "get_last_sync"} -> "assert_thread"
      [] name \in Accessors \ {"set_replication_clock", "get_last_sync"} -> "on_thread"
      [] OTHER -> "none"

\* The first statement of each function: assert_thread() asserts that the
\* caller is on the home thread, on_thread_t moves the call to the home
\* thread until the scope ends; create() is static and does neither, and
\* neither does backfill() with the caller's transaction.
ThreadEntry(name) ==
    CASE name \in TokenDataOps -> "assert_thread"
      [] name \in SuperblockDataOps \ {"backfill_with_superblock"} -> "assert_thread"
      [] name = "set_replication_clock" -> "assert_thread"
      [] name \in Accessors \ {"set_replication_clock"} -> "on_thread"
      [] OTHER -> "none"

\* get() calling btree_get without check_through.
ChecksThroughGetSkips(name) ==
    CASE name \in TokenDataOps \ {"get"} -> TRUE
      [] name = "set_replication_clock" -> TRUE
      [] OTHER -> FALSE

\* Whether the function hands its token to order_checkpoint_.check_through.
\* set_last_sync takes a token and leaves it unused.
ChecksThrough(name) ==
    CASE name \in TokenDataOps -> TRUE
      [] name = "set_replication_clock" -> TRUE
      [] OTHER -> FALSE

\* Every transaction opened in read mode.
TransactionModeAllRead(name) == "rwi_read"

\* The access mode of the transaction the function opens.
TransactionMode(name) ==
    CASE name = "create" -> "rwi_write"
      [] name \in Setters -> "rwi_write"
      [] OTHER -> "rwi_read"

\* set_replication_clock taking the superblock for read.
SuperblockLockModeClockRead(name) ==
    CASE name = "create" -> "rwi_write"
      [] name \in Setters \ {"set_replication_clock"} -> "rwi_write"
      [] OTHER -> "rwi_read"

\* The access mode of the buf_lock_t on SUPERBLOCK_ID.
SuperblockLockMode(name) ==
    CASE name = "create" -> "rwi_write"
      [] name \in Setters -> "rwi_write"
      [] OTHER -> "rwi_read"

\* A getter's return statement.
GetField(name, block) ==
    CASE name = "get_replication_clock" -> block.replication_clock
      [] name = "get_last_sync" -> block.last_sync
      [] name = "get_replication_master_id" -> block.replication_master_id
      [] OTHER -> block.replication_slave_id

\* set_replication_clock assigning t without std::max.
SetFieldNoMax(name, block, old, t) ==
    CASE name = "set_replication_clock" -> [block EXCEPT !.replication_clock = t]
      [] name = "set_last_sync" -> [block EXCEPT !.last_sync = t]
      [] name = "set_replication_master_id" ->
             [block EXCEPT !.replication_master_id = t]
      [] OTHER -> [block EXCEPT !.replication_slave_id = t]

\* set_replication_master_id assigning the slave id as well.
SetFieldMasterWritesSlave(name, block, old, t) ==
    CASE name = "set_replication_clock" ->
             [block EXCEPT !.replication_clock = Max(old, t)]
      [] name = "set_last_sync" -> [block EXCEPT !.last_sync = t]
      [] name = "set_replication_master_id" ->
             [block EXCEPT !.replication_master_id = t, !.replication_slave_id = t]
      [] OTHER -> [block EXCEPT !.replication_slave_id = t]

\* set_last_sync keeping the larger of the stored and the given timestamp, as
\* set_replication_clock does.
SetFieldLastSyncMax(name, block, old, t) ==
    CASE name = "set_replication_clock" ->
             [block EXCEPT !.replication_clock = Max(old, t)]
      [] name = "set_last_sync" ->
             [block EXCEPT !.last_sync = Max(block.last_sync, t)]
      [] name = "set_replication_master_id" ->
             [block EXCEPT !.replication_master_id = t]
      [] OTHER -> [block EXCEPT !.replication_slave_id = t]

\* A setter's assignment; old is the clock value read under the lock.
SetField(name, block, old, t) ==
    CASE name = "set_replication_clock" ->
             [block EXCEPT !.replication_clock = Max(old, t)]
      [] name = "set_last_sync" -> [block EXCEPT !.last_sync = t]
      [] name = "set_replication_master_id" ->
             [block EXCEPT !.replication_master_id = t]
      [] OTHER -> [block EXCEPT !.replication_slave_id = t]

ArgsOf(name) ==
    IF name \in {"set_replication_clock", "set_last_sync"} THEN Timestamps
    ELSE IF name \in Setters THEN Ids
    ELSE {0}

\* ------------------------------------------------------------------ state

VARIABLES
    sb,        \* the data of block SUPERBLOCK_ID
    recency,   \* the recency of that block (touch_recency)
    slice,     \* "none" before btree_slice_t is constructed, then "alive"
    lock,      \* the lock on SUPERBLOCK_ID: its writer and its readers
    hwm,       \* order_checkpoint_: per source, the last token let through
    issued,    \* per source, the last token it has issued
    pc,        \* per task, where it stands in the call it is running
    op,        \* per task, the call: function, arguments, token, caller
    thread,    \* per task, the thread it is running on
    txn,       \* per task, the access mode of its open transaction
    seen,      \* per task, the clock value it has read from the superblock
    ret,       \* per task, what its last call returned
    ncalls,    \* calls begun so far
    aborted,   \* a fatal assertion has ended the process
    store,     \* the keys and values of the B-tree behind the slice
    invoked,   \* per task, the B-tree functions its call has invoked
    lane,      \* the calls handed to the B-tree layer whose transactions the
               \* sequence group has yet to admit, first come first
    archive,   \* the versioned archive: the write message or read stream at
               \* hand and the outcome of the last call on it
    clock_due, \* history: the largest of the clock the shard started with and
               \* the timestamps of the set_replication_clock calls begun
    pristine   \* history: create() has run and no setter has written since

vars == <<sb, recency, slice, lock, hwm, issued, pc, op, thread, txn, seen,
          ret, ncalls, aborted, store, invoked, lane, archive, clock_due,
          pristine>>

NoOp == [name |-> "none"]
NoArchive == [phase |-> "empty", from |-> "", version |-> 0, value |-> 0,
              stream |-> <<>>, res |-> "", thing |-> <<>>, size |-> 0]
NoRet == [kind |-> "none"]
NoToken == [src |-> "none", n |-> 0, tag |-> ""]

Init ==
    /\ sb \in InitialBlocks
    /\ recency = MaxTime
    /\ slice = "none"
    /\ lock = [writer |-> NoTask, readers |-> {}]
    /\ hwm = [s \in Sources |-> 0]
    /\ issued = [s \in Sources |-> 0]
    /\ pc = [t \in Tasks |-> "idle"]
    /\ op = [t \in Tasks |-> NoOp]
    /\ thread = [t \in Tasks |-> home_thread]
    /\ txn = [t \in Tasks |-> "none"]
    /\ seen = [t \in Tasks |-> 0]
    /\ ret = [t \in Tasks |-> NoRet]
    /\ ncalls = 0
    /\ aborted = FALSE
    /\ store = [k \in Keys |-> NoValue]
    /\ invoked = [t \in Tasks |-> <<>>]
    /\ lane = <<>>
    /\ archive = NoArchive
    /\ clock_due = sb.replication_clock
    /\ pristine = FALSE

\* A task may begin a call when it is running none.
CanBegin(t) ==
    /\ ~aborted
    /\ pc[t] = "idle"
    /\ ncalls < MaxCalls


\* ----------------------------------------------- the superblock's lock

\* buf_lock_t(&txn, SUPERBLOCK_ID, mode) blocks until the block's lock can
\* be taken in that mode: a writer excludes everyone, readers share.
CanLock(mode) ==
    IF mode = "rwi_write"
    THEN lock.writer = NoTask /\ lock.readers = {}
    ELSE lock.writer = NoTask

Locked(t, mode) ==
    IF mode = "rwi_write"
    THEN [lock EXCEPT !.writer = t]
    ELSE [lock EXCEPT !.readers = @ \cup {t}]

\* The buf_lock_t leaves scope.
Unlocked(t) ==
    [writer |-> IF lock.writer = t THEN NoTask ELSE lock.writer,
     readers |-> lock.readers \ {t}]

HoldsLock(t) == lock.writer = t \/ t \in lock.readers

\* -------------------------------------------------------------- create()

\* create(cache, key_range) is called on a cache no slice is open on.
BeginCreate(t, kr) ==
    /\ CanBegin(t)
    /\ slice = "none"
    /\ op' = [op EXCEPT ![t] = [name |-> "create", key_range |-> kr,
                                token |-> NoToken, caller |-> thread[t]]]
    /\ pc' = [pc EXCEPT ![t] = "txn"]
    /\ ret' = [ret EXCEPT ![t] = NoRet]
    /\ ncalls' = ncalls + 1
    /\ UNCHANGED <<sb, recency, slice, lock, hwm, issued, thread, txn, seen, aborted,
                   clock_due, pristine>>
    /\ UNCHANGED <<store, invoked>>
    /\ UNCHANGED lane
    /\ UNCHANGED archive

\* touch_recency, bzero, the field assignments and set_superblock_metainfo,
\* all under the write lock taken just before.
CreateBody(t) ==
    /\ ~aborted
    /\ pc[t] = "write"
    /\ op[t].name = "create"
    /\ recency' = distant_past
    /\ sb' = CreateSuperblock(op[t].key_range)
    /\ pc' = [pc EXCEPT ![t] = "exit"]
    /\ clock_due' = distant_past
    /\ pristine' = TRUE
    /\ UNCHANGED <<slice, lock, hwm, issued, op, thread, txn, seen, ret, ncalls, aborted>>
    /\ UNCHANGED <<store, invoked>>
    /\ UNCHANGED lane
    /\ UNCHANGED archive

\* btree_slice_t::btree_slice_t(cache): the slice is opened on the cache,
\* created by this run or left by an earlier one.
ConstructSlice ==
    /\ ~aborted
    /\ slice = "none"
    /\ \A t \in Tasks : pc[t] = "idle"
    /\ slice' = "alive"
    /\ UNCHANGED <<sb, recency, lock, hwm, issued, pc, op, thread, txn, seen, ret,
                   ncalls, aborted, clock_due, pristine>>
    /\ UNCHANGED <<store, invoked>>
    /\ UNCHANGED lane
    /\ UNCHANGED archive

\* ------------------------------------------------- entering a function

\* Where the call runs after the function's first statement. With
\* assert_thread() a caller off the home thread either trips the assertion
\* (a debug build) or runs on where it is (the assertion compiled out).
EntryThread(name, caller) ==
    IF ThreadEntry(name) = "on_thread" THEN home_thread ELSE caller

AssertionTrips(name, caller) ==
    ThreadEntry(name) = "assert_thread" /\ caller # home_thread

\* The state a call is in after its first statement.
AfterEntry(name) ==
    IF ChecksThrough(name) THEN "check"
    ELSE IF name \in Accessors THEN "txn"
    ELSE "algo"

\* The caller draws the next token of source s (order_source_t::check_in).
FreshToken(s) == [src |-> s, n |-> issued[s] + 1, tag |-> ""]

\* A replication-metadata accessor is called from thread caller with
\* argument a; the two that take a token get the next one of source s.
BeginAccessor(t, name, a, s, caller, debug) ==
    /\ CanBegin(t)
    /\ slice = "alive"
    /\ name \in Accessors
    /\ a \in ArgsOf(name)
    /\ ncalls' = ncalls + 1
    /\ ret' = [ret EXCEPT ![t] = NoRet]
    /\ op' = [op EXCEPT ![t] =
                [name |-> name, arg |-> a, caller |-> caller,
                 token |-> IF name \in TokenCarrying THEN FreshToken(s) ELSE NoToken]]
    /\ issued' = IF name \in TokenCarrying
                 THEN [issued EXCEPT ![s] = @ + 1] ELSE issued
    /\ IF AssertionTrips(name, caller) /\ debug
       THEN /\ aborted' = TRUE
            /\ pc' = [pc EXCEPT ![t] = "crashed"]
            /\ thread' = [thread EXCEPT ![t] = caller]
       ELSE /\ aborted' = aborted
            /\ pc' = [pc EXCEPT ![t] = AfterEntry(name)]
            /\ thread' = [thread EXCEPT ![t] = EntryThread(name, caller)]
    /\ clock_due' = IF name = "set_replication_clock"
                    THEN Max(clock_due, a) ELSE clock_due
    /\ UNCHANGED <<sb, recency, slice, lock, hwm, txn, seen, pristine>>
    /\ UNCHANGED <<store, invoked>>
    /\ UNCHANGED lane
    /\ UNCHANGED archive

\* ------------------------------------------------ the order checkpoint

\* check_through letting the token through without recording it.
CheckThroughNoRecord(t) ==
    /\ ~aborted
    /\ pc[t] = "check"
    /\ op[t].token.src \in Sources
    /\ hwm[op[t].token.src] = op[t].token.n - 1
    /\ hwm' = hwm
    /\ op' = [op EXCEPT ![t].token.tag = "slice"]
    /\ pc' = [pc EXCEPT ![t] = IF op[t].name \in Accessors THEN "txn" ELSE "algo"]
    /\ UNCHANGED <<sb, recency, slice, lock, issued, thread, txn, seen, ret,
                   ncalls, aborted, clock_due, pristine>>
    /\ UNCHANGED <<store, invoked>>
    /\ lane' = IF op[t].name \in Accessors THEN lane ELSE Append(lane, t)
    /\ UNCHANGED archive

\* order_checkpoint_.check_through(token): the call waits until every
\* smaller token of the same source has been checked through, the
\* checkpoint records the token, and the token it returns carries the
\* checkpoint's tag ("slice", set in the constructor).
CheckThrough(t) ==
    /\ ~aborted
    /\ pc[t] = "check"
    /\ op[t].token.src \in Sources
    /\ hwm[op[t].token.src] = op[t].token.n - 1
    /\ hwm' = [hwm EXCEPT ![op[t].token.src] = op[t].token.n]
    /\ op' = [op EXCEPT ![t].token.tag = "slice"]
    /\ pc' = [pc EXCEPT ![t] = IF op[t].name \in Accessors THEN "txn" ELSE "algo"]
    /\ UNCHANGED <<sb, recency, slice, lock, issued, thread, txn, seen, ret,
                   ncalls, aborted, clock_due, pristine>>
    /\ UNCHANGED <<store, invoked>>
    /\ lane' = IF op[t].name \in Accessors THEN lane ELSE Append(lane, t)
    /\ UNCHANGED archive

\* ------------------------------------- transactions on the superblock

\* transaction_t transaction(cache, seq_group, mode, ...)
OpenTransaction(t) ==
    /\ ~aborted
    /\ pc[t] = "txn"
    /\ txn' = [txn EXCEPT ![t] = TransactionMode(op[t].name)]
    /\ pc' = [pc EXCEPT ![t] = "lock"]
    /\ UNCHANGED <<sb, recency, slice, lock, hwm, issued, op, thread, seen, ret,
                   ncalls, aborted, clock_due, pristine>>
    /\ UNCHANGED <<store, invoked>>
    /\ UNCHANGED lane
    /\ UNCHANGED archive

\* The lock tried once: a call that finds it held gives up with an error.
LockSuperblockTryOnce(t) ==
    /\ ~aborted
    /\ pc[t] = "lock"
    /\ IF CanLock(SuperblockLockMode(op[t].name))
       THEN /\ lock' = Locked(t, SuperblockLockMode(op[t].name))
            /\ pc' = [pc EXCEPT ![t] =
                        IF op[t].name \in Getters \cup {"set_replication_clock"}
                        THEN "read" ELSE "write"]
            /\ ret' = ret
       ELSE /\ lock' = lock
            /\ pc' = [pc EXCEPT ![t] = "exit"]
            /\ ret' = [ret EXCEPT ![t] = [kind |-> "error", value |-> 0]]
    /\ UNCHANGED <<sb, recency, slice, hwm, issued, op, thread, txn, seen,
                   ncalls, aborted, clock_due, pristine>>
    /\ UNCHANGED <<store, invoked>>
    /\ UNCHANGED lane
    /\ UNCHANGED archive

\* buf_lock_t superblock(&transaction, SUPERBLOCK_ID, mode)
LockSuperblock(t) ==
    /\ ~aborted
    /\ pc[t] = "lock"
    /\ CanLock(SuperblockLockMode(op[t].name))
    /\ lock' = Locked(t, SuperblockLockMode(op[t].name))
    /\ pc' = [pc EXCEPT ![t] =
                IF op[t].name \in Getters \cup {"set_replication_clock"}
                THEN "read" ELSE "write"]
    /\ UNCHANGED <<sb, recency, slice, hwm, issued, op, thread, txn, seen, ret,
                   ncalls, aborted, clock_due, pristine>>
    /\ UNCHANGED <<store, invoked>>
    /\ UNCHANGED lane
    /\ UNCHANGED archive

\* A getter reads its field and returns it.
GetterRead(t) ==
    /\ ~aborted
    /\ pc[t] = "read"
    /\ op[t].name \in Getters
    /\ ret' = [ret EXCEPT ![t] = [kind |-> "value", value |-> GetField(op[t].name, sb)]]
    /\ pc' = [pc EXCEPT ![t] = "exit"]
    /\ UNCHANGED <<sb, recency, slice, lock, hwm, issued, op, thread, txn, seen,
                   ncalls, aborted, clock_due, pristine>>
    /\ UNCHANGED <<store, invoked>>
    /\ UNCHANGED lane
    /\ UNCHANGED archive

\* set_replication_clock evaluates sb->replication_clock, the first
\* argument of std::max.
ClockRead(t) ==
    /\ ~aborted
    /\ pc[t] = "read"
    /\ op[t].name = "set_replication_clock"
    /\ seen' = [seen EXCEPT ![t] = sb.replication_clock]
    /\ pc' = [pc EXCEPT ![t] = "write"]
    /\ UNCHANGED <<sb, recency, slice, lock, hwm, issued, op, thread, txn, ret,
                   ncalls, aborted, clock_due, pristine>>
    /\ UNCHANGED <<store, invoked>>
    /\ UNCHANGED lane
    /\ UNCHANGED archive

\* A setter assigns its field.
SetterWrite(t) ==
    /\ ~aborted
    /\ pc[t] = "write"
    /\ op[t].name \in Setters
    /\ sb' = SetField(op[t].name, sb, seen[t], op[t].arg)
    /\ pc' = [pc EXCEPT ![t] = "exit"]
    /\ pristine' = FALSE
    /\ UNCHANGED <<recency, slice, lock, hwm, issued, op, thread, txn, seen, ret,
                   ncalls, aborted, clock_due>>
    /\ UNCHANGED <<store, invoked>>
    /\ UNCHANGED lane
    /\ UNCHANGED archive

\* The call returning with its buf_lock_t still held.
LeaveScopeKeepsLock(t) ==
    /\ ~aborted
    /\ pc[t] = "exit"
    /\ lock' = lock
    /\ txn' = [txn EXCEPT ![t] = "none"]
    /\ thread' = [thread EXCEPT ![t] = op[t].caller]
    /\ seen' = [seen EXCEPT ![t] = 0]
    /\ op' = [op EXCEPT ![t] = NoOp]
    /\ ret' = [ret EXCEPT ![t] = NoRet]
    /\ pc' = [pc EXCEPT ![t] = "idle"]
    /\ UNCHANGED <<sb, recency, slice, hwm, issued, ncalls, aborted, clock_due,
                   pristine>>
    /\ invoked' = [invoked EXCEPT ![t] = <<>>]
    /\ UNCHANGED store
    /\ UNCHANGED lane
    /\ UNCHANGED archive

\* The scope ends: the buf_lock_t, the transaction and the on_thread_t are
\* destroyed, and the call returns (ret) on the caller's thread.
LeaveScope(t) ==
    /\ ~aborted
    /\ pc[t] = "exit"
    /\ lock' = Unlocked(t)
    /\ txn' = [txn EXCEPT ![t] = "none"]
    /\ thread' = [thread EXCEPT ![t] = op[t].caller]
    /\ seen' = [seen EXCEPT ![t] = 0]
    /\ op' = [op EXCEPT ![t] = NoOp]
    /\ ret' = [ret EXCEPT ![t] = NoRet]
    /\ pc' = [pc EXCEPT ![t] = "idle"]
    /\ UNCHANGED <<sb, recency, slice, hwm, issued, ncalls, aborted, clock_due,
                   pristine>>
    /\ invoked' = [invoked EXCEPT ![t] = <<>>]
    /\ UNCHANGED store
    /\ UNCHANGED lane
    /\ UNCHANGED archive

\* ------------------------------------------------ the storage operations

seq_group == "seq_group"

\* The calls of the operations that take a sequence group and a token, by
\* their arguments.
GetCalls == {[name |-> "get", key |-> k] : k \in Keys}
RgetCalls ==
    {[name |-> "rget", left_mode |-> "closed", left_key |-> <<97>>,
      right_mode |-> rm, right_key |-> <<122>>] : rm \in {"open", "none"}}
ChangeCalls(mutations) ==
    {[name |-> "change", m |-> m, castime |-> ct] :
        m \in mutations, ct \in Castimes}
BackfillCalls ==
    {[name |-> "backfill", key_range |-> kr, since_when |-> ts] :
        kr \in KeyRanges, ts \in {distant_past, MaxTime}}
BackfillDeleteRangeCalls ==
    {[name |-> "backfill_delete_range", tester |-> ts,
      left_key_supplied |-> ls, left_key_exclusive |-> <<97>>,
      right_key_supplied |-> TRUE, right_key_inclusive |-> <<122>>] :
        ts \in {"key_in_range", "key_not_in_range"}, ls \in BOOLEAN}

\* What each operation hands to the B-tree layer after the checkpoint.
TokenCall(o) ==
    CASE o.name = "get" ->
            [alg |-> "btree_get", args |-> [key |-> o.key],
             via |-> [seq_group |-> seq_group, order_token |-> o.token]]
      [] o.name = "rget" ->
            [alg |-> "btree_rget_slice",
             args |-> [left_mode |-> o.left_mode, left_key |-> o.left_key,
                       right_mode |-> o.right_mode, right_key |-> o.right_key],
             via |-> [seq_group |-> seq_group, order_token |-> o.token]]
      [] o.name = "change" ->
            btree_slice_change_visitor_t(o.m, seq_group, o.castime, o.token)
      [] o.name = "backfill_delete_range" ->
            [alg |-> "btree_erase_range",
             args |-> [tester |-> o.tester,
                       left_key_supplied |-> o.left_key_supplied,
                       left_key_exclusive |-> o.left_key_exclusive,
                       right_key_supplied |-> o.right_key_supplied,
                       right_key_inclusive |-> o.right_key_inclusive],
             via |-> [seq_group |-> seq_group, order_token |-> o.token]]
      [] o.name = "backfill" ->
            [alg |-> "btree_backfill",
             args |-> [key_range |-> o.key_range, since_when |-> o.since_when],
             account |-> "backfill_account",
             via |-> [seq_group |-> seq_group, order_token |-> o.token]]

\* The same for the overloads with the caller's transaction and superblock.
\* backfill() hands over no cache account: the I/O goes to the account of
\* the caller's transaction (txn_account).
SuperblockCall(o, transaction, superblock) ==
    CASE o.name = "get_with_superblock" ->
            [alg |-> "btree_get", args |-> [key |-> o.key],
             via |-> [txn |-> transaction, superblock |-> superblock]]
      [] o.name = "rget_with_superblock" ->
            [alg |-> "btree_rget_slice",
             args |-> [left_mode |-> o.left_mode, left_key |-> o.left_key,
                       right_mode |-> o.right_mode, right_key |-> o.right_key],
             via |-> [txn |-> transaction, superblock |-> superblock]]
      [] o.name = "change_with_superblock" ->
            btree_slice_change_with_superblock_visitor_t(
                o.m, o.castime, transaction, superblock)
      [] o.name = "backfill_delete_range_with_superblock" ->
            [alg |-> "btree_erase_range",
             args |-> [tester |-> o.tester,
                       left_key_supplied |-> o.left_key_supplied,
                       left_key_exclusive |-> o.left_key_exclusive,
                       right_key_supplied |-> o.right_key_supplied,
                       right_key_inclusive |-> o.right_key_inclusive],
             via |-> [txn |-> transaction, superblock |-> superblock]]
      [] o.name = "backfill_with_superblock" ->
            [alg |-> "btree_backfill",
             args |-> [key_range |-> o.key_range, since_when |-> o.since_when],
             account |-> o.txn_account,
             via |-> [txn |-> transaction, superblock |-> superblock]]

\* What the operation returns, from what the B-tree function returned.
ReturnOf(name, call, r) ==
    CASE name \in {"get", "get_with_superblock"} ->
            [kind |-> "get_result_t", result |-> r]
      [] name \in {"rget", "rget_with_superblock"} ->
            [kind |-> "rget_result_t", result |-> r]
      [] name \in {"change", "change_with_superblock"} ->
            mutation_result_t(call.alg, r)
      [] OTHER -> [kind |-> "void"]

\* A storage operation is called with the next token of source s.
BeginTokenOp(t, o, s, caller, debug) ==
    /\ CanBegin(t)
    /\ slice = "alive"
    /\ o.name \in TokenDataOps
    /\ ncalls' = ncalls + 1
    /\ ret' = [ret EXCEPT ![t] = NoRet]
    /\ op' = [op EXCEPT ![t] = o @@ [token |-> FreshToken(s), caller |-> caller]]
    /\ issued' = [issued EXCEPT ![s] = @ + 1]
    /\ IF AssertionTrips(o.name, caller) /\ debug
       THEN /\ aborted' = TRUE
            /\ pc' = [pc EXCEPT ![t] = "crashed"]
            /\ lane' = lane
       ELSE /\ aborted' = aborted
            /\ pc' = [pc EXCEPT ![t] = AfterEntry(o.name)]
            /\ lane' = IF AfterEntry(o.name) = "algo" THEN Append(lane, t) ELSE lane
    /\ thread' = [thread EXCEPT ![t] = caller]
    /\ UNCHANGED <<sb, recency, slice, lock, hwm, txn, seen, store, invoked,
                   clock_due, pristine>>
    /\ UNCHANGED archive

\* The B-tree function runs: it opens its transaction in the sequence
\* group, which admits the transactions of the shard first come first, and
\* takes the superblock itself, so it runs when the call is the first of the
\* lane and the lock allows; its result is what the operation returns.
RunTokenOp(t) ==
    /\ ~aborted
    /\ pc[t] = "algo"
    /\ lane # <<>>
    /\ Head(lane) = t
    /\ lane' = Tail(lane)
    /\ op[t].name \in TokenDataOps
    /\ LET call == TokenCall(op[t])
           r == RunAlgorithm(call, store)
       IN  /\ CanLock(IF AlgorithmWrites(call.alg) THEN "rwi_write" ELSE "rwi_read")
           /\ store' = r.store
           /\ invoked' = [invoked EXCEPT ![t] =
                            Append(@, call @@ [returned |-> r.result])]
           /\ ret' = [ret EXCEPT ![t] = ReturnOf(op[t].name, call, r.result)]
    /\ pc' = [pc EXCEPT ![t] = "exit"]
    /\ UNCHANGED <<sb, recency, slice, lock, hwm, issued, op, thread, txn, seen,
                   ncalls, aborted, clock_due, pristine>>
    /\ UNCHANGED archive

\* The transaction the caller of a token-less overload has opened, by what
\* the operation does to the tree.
CallersTransactionMode(name) ==
    IF name \in {"change_with_superblock", "backfill_delete_range_with_superblock"}
    THEN "rwi_write" ELSE "rwi_read"

\* A token-less overload is called by a caller that holds an open
\* transaction and the superblock.
BeginSuperblockOp(t, o, caller) ==
    /\ CanBegin(t)
    /\ slice = "alive"
    /\ o.name \in SuperblockDataOps
    /\ CanLock(CallersTransactionMode(o.name))
    /\ lock' = Locked(t, CallersTransactionMode(o.name))
    /\ txn' = [txn EXCEPT ![t] = CallersTransactionMode(o.name)]
    /\ ncalls' = ncalls + 1
    /\ ret' = [ret EXCEPT ![t] = NoRet]
    /\ op' = [op EXCEPT ![t] = o @@ [token |-> NoToken, caller |-> caller]]
    /\ thread' = [thread EXCEPT ![t] = caller]
    /\ pc' = [pc EXCEPT ![t] = "call"]
    /\ UNCHANGED <<sb, recency, slice, hwm, issued, seen, aborted, store, invoked,
                   clock_due, pristine>>
    /\ UNCHANGED lane
    /\ UNCHANGED archive

\* The overload's body: assert_thread() where it has one, then the B-tree
\* function on the caller's transaction and superblock.
RunSuperblockOp(t, debug) ==
    /\ ~aborted
    /\ pc[t] = "call"
    /\ IF AssertionTrips(op[t].name, thread[t]) /\ debug
       THEN /\ aborted' = TRUE
            /\ pc' = [pc EXCEPT ![t] = "crashed"]
            /\ UNCHANGED <<store, invoked, ret>>
       ELSE LET call == SuperblockCall(op[t], t, t)
                r == RunAlgorithm(call, store)
            IN  /\ aborted' = aborted
                /\ pc' = [pc EXCEPT ![t] = "exit"]
                /\ store' = r.store
                /\ invoked' = [invoked EXCEPT ![t] =
                                 Append(@, call @@ [returned |-> r.result])]
                /\ ret' = [ret EXCEPT ![t] = ReturnOf(op[t].name, call, r.result)]
    /\ UNCHANGED <<sb, recency, slice, lock, hwm, issued, op, thread, txn, seen,
                   ncalls, clock_due, pristine>>
    /\ UNCHANGED lane
    /\ UNCHANGED archive

\* ---------------------------------------------------------- specification

\* The superblock and its accessors: two tasks on the home thread create
\* the shard, open the slice and call the accessors, with tokens of one source.
MetaTasks == {"t1", "t2"}

NextMeta ==
    \/ \E t \in MetaTasks, kr \in KeyRanges : BeginCreate(t, kr)
    \/ \E t \in MetaTasks : CreateBody(t)
    \/ ConstructSlice
    \/ \E t \in MetaTasks, name \in Accessors, a \in Timestamps \cup Ids :
          BeginAccessor(t, name, a, "s1", home_thread, TRUE)
    \/ \E t \in MetaTasks : CheckThrough(t)
    \/ \E t \in MetaTasks : OpenTransaction(t)
    \/ \E t \in MetaTasks : LockSuperblock(t)
    \/ \E t \in MetaTasks : GetterRead(t)
    \/ \E t \in MetaTasks : ClockRead(t)
    \/ \E t \in MetaTasks : SetterWrite(t)
    \/ \E t \in MetaTasks : LeaveScope(t)

SpecMeta == Init /\ [][NextMeta]_vars


\* The accessors called from either thread, in a build with assertions and
\* in one without, on a slice opened on an existing block.
NextThread ==
    \/ ConstructSlice
    \/ \E t \in MetaTasks, name \in Accessors, a \in Ids, caller \in Threads,
          debug \in BOOLEAN :
          BeginAccessor(t, name, a, "s1", caller, debug)
    \/ \E t \in MetaTasks : CheckThrough(t)
    \/ \E t \in MetaTasks : OpenTransaction(t)
    \/ \E t \in MetaTasks : LockSuperblock(t)
    \/ \E t \in MetaTasks : GetterRead(t)
    \/ \E t \in MetaTasks : ClockRead(t)
    \/ \E t \in MetaTasks : SetterWrite(t)
    \/ \E t \in MetaTasks : LeaveScope(t)

SpecThread == Init /\ [][NextThread]_vars

\* The order checkpoint: three tasks on the home thread call the
\* operations that take an order token, on a shard an earlier run has
\* written. Every operation draws tokens of source s1; get, change and the
\* two setters also draw tokens of source s2.
SetKV == sarc_mutation_t(<<107>>, <<118>>, 0, 0, "add_policy_yes",
                         "replace_policy_yes", 0)
OrderCastime == [proposed_cas |-> 1, timestamp |-> 1]

NextOrder ==
    \/ ConstructSlice
    \/ \E t \in Tasks, s \in Sources, o \in GetCalls :
          BeginTokenOp(t, o, s, home_thread, TRUE)
    \/ \E t \in Tasks :
          BeginTokenOp(t, [name |-> "rget", left_mode |-> "closed",
                           left_key |-> <<97>>, right_mode |-> "open",
                           right_key |-> <<122>>], "s1", home_thread, TRUE)
    \/ \E t \in Tasks, s \in Sources :
          BeginTokenOp(t, [name |-> "change", m |-> SetKV, castime |-> OrderCastime],
                       s, home_thread, TRUE)
    \/ \E t \in Tasks :
          BeginTokenOp(t, [name |-> "backfill", key_range |-> all_keys,
                           since_when |-> distant_past], "s1", home_thread, TRUE)
    \/ \E t \in Tasks :
          BeginTokenOp(t, [name |-> "backfill_delete_range",
                           tester |-> "key_in_range",
                           left_key_supplied |-> FALSE, left_key_exclusive |-> <<>>,
                           right_key_supplied |-> TRUE,
                           right_key_inclusive |-> <<122>>], "s1", home_thread, TRUE)
    \/ \E t \in Tasks, s \in Sources,
          name \in {"set_replication_clock", "set_last_sync"} :
          BeginAccessor(t, name, MaxTime, s, home_thread, TRUE)
    \/ \E t \in Tasks : CheckThrough(t)
    \/ \E t \in Tasks : RunTokenOp(t)
    \/ \E t \in Tasks : OpenTransaction(t)
    \/ \E t \in Tasks : LockSuperblock(t)
    \/ \E t \in Tasks : ClockRead(t)
    \/ \E t \in Tasks : SetterWrite(t)
    \/ \E t \in Tasks : LeaveScope(t)

InitOrder == Init /\ sb.magic = expected_magic

SpecOrder == InitOrder /\ [][NextOrder]_vars

\* The mutation dispatch: one task calls change() in both shapes with every
\* mutation, from either thread.
NextDispatch ==
    \/ ConstructSlice
    \/ \E o \in ChangeCalls(GetCasMutations), caller \in Threads, debug \in BOOLEAN :
          BeginTokenOp("t1", o, "s1", caller, debug)
    \/ \E o \in ChangeCalls(SarcMutations), caller \in Threads, debug \in BOOLEAN :
          BeginTokenOp("t1", o, "s1", caller, debug)
    \/ \E o \in ChangeCalls(IncrDecrMutations), caller \in Threads, debug \in BOOLEAN :
          BeginTokenOp("t1", o, "s1", caller, debug)
    \/ \E o \in ChangeCalls(AppendPrependMutations), caller \in Threads,
          debug \in BOOLEAN :
          BeginTokenOp("t1", o, "s1", caller, debug)
    \/ \E o \in ChangeCalls(DeleteMutations), caller \in Threads, debug \in BOOLEAN :
          BeginTokenOp("t1", o, "s1", caller, debug)
    \/ \E m \in GetCasMutations \cup SarcMutations, ct \in Castimes,
          caller \in Threads :
          BeginSuperblockOp("t1", [name |-> "change_with_superblock", m |-> m,
                                   castime |-> ct], caller)
    \/ \E m \in IncrDecrMutations \cup AppendPrependMutations \cup DeleteMutations,
          ct \in Castimes, caller \in Threads :
          BeginSuperblockOp("t1", [name |-> "change_with_superblock", m |-> m,
                                   castime |-> ct], caller)
    \/ CheckThrough("t1")
    \/ RunTokenOp("t1")
    \/ \E debug \in BOOLEAN : RunSuperblockOp("t1", debug)
    \/ LeaveScope("t1")

SpecDispatch == Init /\ [][NextDispatch]_vars

\* ------------------------------------------------- the replication clock

InFlight(t, name) == pc[t] # "idle" /\ op[t].name = name

\* C3: a set_replication_clock(t) that writes leaves the stored clock at
\* the larger of the value stored before and t, and on an open slice no
\* step of any operation makes the stored clock smaller.
C3_ClockIsMax ==
    [][ /\ slice = "alive" => sb'.replication_clock >= sb.replication_clock
        /\ \A t \in Tasks :
              (InFlight(t, "set_replication_clock") /\ pc[t] = "write" /\ pc'[t] = "exit")
                 => sb'.replication_clock = Max(sb.replication_clock, op[t].arg) ]_vars

\* A set_replication_clock with a timestamp older than the stored clock has
\* written, and the clock is still the newer value.
C3_Witness ==
    \E t \in Tasks :
        /\ InFlight(t, "set_replication_clock")
        /\ pc[t] = "exit"
        /\ op[t].arg < sb.replication_clock
        /\ sb.replication_clock = clock_due

\* C4: whenever no set_replication_clock call is running on the slice, the
\* stored clock is the largest of the clock the shard started with and the
\* timestamps of all the calls made, whatever their interleaving.
C4_NoLostClockUpdate ==
    (slice = "alive" /\ \A t \in Tasks : ~InFlight(t, "set_replication_clock"))
        => sb.replication_clock = clock_due

\* Two set_replication_clock calls overlap: one has written the larger
\* timestamp and still holds the lock the other one waits for.
C4_Witness ==
    \E t1, t2 \in Tasks :
        /\ InFlight(t1, "set_replication_clock") /\ pc[t1] = "exit"
        /\ InFlight(t2, "set_replication_clock") /\ pc[t2] = "lock"
        /\ op[t2].arg < op[t1].arg
        /\ sb.replication_clock = op[t1].arg
        /\ lock.writer = t1

\* ------------------------------------------------------------ create()

\* C5: when create(cache, K) has run its body, whatever the block held, the
\* superblock has the expected magic, the empty-tree root, both timestamps
\* at distant_past, both ids 0 and a metainfo key that decodes to K; and
\* the getters called before any setter return those values.
C5_CreateResult ==
    /\ \A t \in Tasks :
          (InFlight(t, "create") /\ pc[t] = "exit") =>
             /\ sb.magic = expected_magic
             /\ sb.root_block = NULL_BLOCK_ID
             /\ sb.replication_clock = distant_past
             /\ sb.last_sync = distant_past
             /\ sb.replication_master_id = 0
             /\ sb.replication_slave_id = 0
             /\ Len(sb.metainfo_blob) = 1
             /\ DeserializeKeyRange(sb.metainfo_blob[1].key) = op[t].key_range
             /\ sb.metainfo_blob[1].value = <<>>
    /\ pristine =>
          \A t \in Tasks :
             (pc[t] = "exit" /\ op[t].name \in Getters) =>
                ret[t].value =
                   IF op[t].name \in {"get_replication_clock", "get_last_sync"}
                   THEN distant_past ELSE 0

\* A getter has read a shard created with the key range ["a", "z") on a
\* block that held something else before.
C5_Witness ==
    /\ pristine
    /\ slice = "alive"
    /\ DeserializeKeyRange(sb.metainfo_blob[1].key)
          = key_range_t(key_range_closed, <<97>>, key_range_open, <<122>>)
    /\ \E t \in Tasks : pc[t] = "exit" /\ op[t].name = "get_replication_master_id"

\* ------------------------------------------------ the lock discipline

\* C8: the superblock changes only in a step of a task that holds the
\* write lock inside a write-mode transaction; a task reads a field only
\* while it holds the lock inside a transaction; a writer holds the lock
\* alone.
C8_LockDiscipline ==
    /\ [](lock.writer # NoTask => lock.readers = {})
    /\ [][ (sb' # sb \/ recency' # recency) =>
              \E t \in Tasks :
                 /\ lock.writer = t
                 /\ txn[t] = "rwi_write"
                 /\ pc[t] = "write" /\ pc'[t] = "exit" ]_vars
    /\ [][ \A t \in Tasks :
              ((pc[t] = "read" /\ pc'[t] # "read") \/ (ret'[t] # ret[t] /\ ret'[t] # NoRet))
                 => (HoldsLock(t) /\ txn[t] # "none") ]_vars

\* A setter has written under the write lock while a getter waits for the
\* lock.
C8_Witness ==
    \E t1, t2 \in Tasks :
        /\ pc[t1] = "exit" /\ op[t1].name = "set_last_sync" /\ lock.writer = t1
        /\ pc[t2] = "lock" /\ op[t2].name = "get_last_sync" /\ txn[t2] = "rwi_read"

\* --------------------------------------------------------- the magic tag

\* C10: no accessor reads or writes a field of a superblock whose magic is
\* not the expected one. (The accessors do not look at the magic.)
C10_MagicValidated ==
    \A t \in Tasks :
        (pc[t] = "exit" /\ op[t].name \in Accessors) => sb.magic = expected_magic


\* -------------------------------------------------------- the home thread

InTransaction(t) == pc[t] \in {"lock", "read", "write", "exit"}

\* C9 as stated: no accessor call ends in a failed assertion, and every
\* accessor's transaction runs on the home thread.
C9_AllAccessorsTransfer ==
    \A t \in Tasks :
        op[t].name \in Accessors =>
            /\ pc[t] # "crashed"
            /\ InTransaction(t) => thread[t] = home_thread

\* The accessors that begin with on_thread_t.
OnThreadAccessors == Accessors \ {"set_replication_clock"}

\* C9 as amended: the seven accessors other than set_replication_clock
\* never fail on the caller's thread, run their transaction on the home
\* thread and return on the caller's thread; set_replication_clock stays on
\* the caller's thread.
C9_OnThreadAccessorsTransfer ==
    /\ [](\A t \in Tasks :
            /\ op[t].name \in OnThreadAccessors =>
                  /\ pc[t] # "crashed"
                  /\ pc[t] # "idle" => thread[t] = home_thread
                  /\ InTransaction(t) => txn[t] # "none"
            /\ InFlight(t, "set_replication_clock") => thread[t] = op[t].caller)
    /\ [][ \A t \in Tasks :
              (pc[t] = "exit" /\ pc'[t] = "idle") => thread'[t] = op[t].caller ]_vars

\* get_last_sync, called from the other thread, has read the superblock in
\* a transaction on the home thread.
C9_Witness ==
    \E t \in Tasks :
        /\ op[t].name = "get_last_sync"
        /\ op[t].caller = "other"
        /\ pc[t] = "exit"
        /\ thread[t] = home_thread
        /\ txn[t] = "rwi_read"


\* ------------------------------------------------- the order checkpoint

\* The call has opened a transaction, holds the superblock or has invoked
\* a B-tree function.
ReachedStorage(t) == txn[t] # "none" \/ HoldsLock(t) \/ invoked[t] # <<>>

\* C1: a call of an operation that takes an order token has reached the
\* storage layer only with a token the slice's checkpoint has returned.
C1_TokenCheckedBeforeStorage ==
    \A t \in Tasks :
        (op[t].name \in TokenCarrying /\ ReachedStorage(t))
            => op[t].token.tag = "slice"

\* C2: a call of an operation that takes an order token has reached the
\* storage layer only when every smaller token of its source has been
\* admitted by the checkpoint.
C2_AdmittedInTokenOrder ==
    \A t \in Tasks :
        (op[t].name \in TokenCarrying /\ ReachedStorage(t))
            => \A n \in 1 .. op[t].token.n - 1 : n <= hwm[op[t].token.src]

\* The same two statements for the operations that do call check_through.
CheckedOps == {name \in TokenCarrying : ChecksThrough(name)}

CheckedOpsInTokenOrder ==
    \A t \in Tasks :
        (op[t].name \in CheckedOps /\ ReachedStorage(t))
            => /\ op[t].token.tag = "slice"
               /\ \A n \in 1 .. op[t].token.n : n <= hwm[op[t].token.src]

\* ------------------------------------------------- the mutation dispatch

ChangeOps == {"change", "change_with_superblock"}

\* The B-tree function and the result type that belong to each mutation.
ExpectedAlgorithm(tag) ==
    CASE tag = "get_cas" -> "btree_get_cas"
      [] tag = "sarc" -> "btree_set"
      [] tag = "incr_decr" -> "btree_incr_decr"
      [] tag = "append_prepend" -> "btree_append_prepend"
      [] tag = "delete" -> "btree_delete"

ExpectedResultType(tag) ==
    CASE tag = "get_cas" -> "get_result_t"
      [] tag = "sarc" -> "set_result_t"
      [] tag = "incr_decr" -> "incr_decr_result_t"
      [] tag = "append_prepend" -> "append_prepend_result_t"
      [] tag = "delete" -> "delete_result_t"

\* C6: a change() that has run has invoked one B-tree function, once, the
\* one that belongs to the mutation's tag, and returns what that function
\* returned as the mutation result of the matching type.
C6_DispatchExact ==
    \A t \in Tasks :
        (pc[t] = "exit" /\ op[t].name \in ChangeOps) =>
            /\ Len(invoked[t]) = 1
            /\ invoked[t][1].alg = ExpectedAlgorithm(op[t].m.tag)
            /\ ret[t].kind = "mutation_result_t"
            /\ ret[t].which = ExpectedResultType(op[t].m.tag)
            /\ ret[t].result = invoked[t][1].returned

\* A delete through change() has invoked btree_delete and removed the key.
C6_Witness ==
    \E t \in Tasks :
        /\ pc[t] = "exit"
        /\ op[t].name = "change"
        /\ op[t].m.tag = "delete"
        /\ invoked[t][1].alg = "btree_delete"
        /\ ret[t].result = "dr_deleted"

\* C7: for every change() about to run, in either call shape, the two
\* visitors hand its mutation and castime to the same B-tree function with
\* the same arguments, and on the store of that moment the function returns
\* the same result, wrapped alike, and leaves the same store.
C7_ShapesAgree ==
    \A t \in Tasks :
        (pc[t] \in {"algo", "call"} /\ op[t].name \in ChangeOps) =>
            LET a == btree_slice_change_visitor_t(op[t].m, seq_group,
                                                  op[t].castime, NoToken)
                b == btree_slice_change_with_superblock_visitor_t(
                         op[t].m, op[t].castime, t, t)
            IN  /\ a.alg = b.alg
                /\ a.args = b.args
                /\ RunAlgorithm(a, store) = RunAlgorithm(b, store)
                /\ mutation_result_t(a.alg, RunAlgorithm(a, store).result)
                      = mutation_result_t(b.alg, RunAlgorithm(b, store).result)

\* An increment through change() with the caller's transaction has run on
\* a store that holds a number.
C7_Witness ==
    \E t \in Tasks :
        /\ pc[t] = "exit"
        /\ op[t].name = "change_with_superblock"
        /\ op[t].m.tag = "incr_decr"
        /\ op[t].m.kind = "incr_decr_INCR"
        /\ ret[t].result.res = "idr_success"
        /\ store[<<107>>].data = FormatNumber(ret[t].result.new_value)

\* --------------------------------------- the checkpoint and the lock

\* The operations that call check_through, with tokens of both sources.
NextChecked ==
    \/ ConstructSlice
    \/ \E t \in Tasks, s \in Sources, o \in GetCalls :
          BeginTokenOp(t, o, s, home_thread, TRUE)
    \/ \E t \in Tasks, s \in Sources :
          BeginTokenOp(t, [name |-> "change", m |-> SetKV, castime |-> OrderCastime],
                       s, home_thread, TRUE)
    \/ \E t \in Tasks, s \in Sources :
          BeginTokenOp(t, [name |-> "backfill_delete_range",
                           tester |-> "key_in_range",
                           left_key_supplied |-> FALSE, left_key_exclusive |-> <<>>,
                           right_key_supplied |-> TRUE,
                           right_key_inclusive |-> <<122>>], s, home_thread, TRUE)
    \/ \E t \in Tasks, s \in Sources :
          BeginAccessor(t, "set_replication_clock", MaxTime, s, home_thread, TRUE)
    \/ \E t \in Tasks : CheckThrough(t)
    \/ \E t \in Tasks : RunTokenOp(t)
    \/ \E t \in Tasks : OpenTransaction(t)
    \/ \E t \in Tasks : LockSuperblock(t)
    \/ \E t \in Tasks : ClockRead(t)
    \/ \E t \in Tasks : SetterWrite(t)
    \/ \E t \in Tasks : LeaveScope(t)

SpecChecked == InitOrder /\ [][NextChecked]_vars

\* A step of a call that is under way.
InFlightStep ==
    \E t \in Tasks :
        \/ CheckThrough(t)
        \/ RunTokenOp(t)
        \/ OpenTransaction(t)
        \/ LockSuperblock(t)
        \/ GetterRead(t)
        \/ ClockRead(t)
        \/ SetterWrite(t)
        \/ LeaveScope(t)

\* Calls are under way and none of them can take a step: each waits at the
\* checkpoint or for the lock.
Deadlocked ==
    /\ ~aborted
    /\ \E t \in Tasks : pc[t] # "idle"
    /\ ~ENABLED InFlightStep

\* No call waits at the checkpoint with a transaction open or the lock held.
ChecksBeforeTransaction ==
    \A t \in Tasks : pc[t] = "check" => (txn[t] = "none" /\ ~HoldsLock(t))

\* C11: no call waits at the checkpoint while it has a transaction open or
\* holds the superblock lock, and the calls under way are never all
\* suspended at the checkpoint or on the lock.
C11_NoDeadlock == ChecksBeforeTransaction /\ ~Deadlocked

\* A call waits at the checkpoint behind one that holds the lock.
CheckedOpsWaiting ==
    \E t, u \in Tasks :
        /\ pc[t] = "check"
        /\ hwm[op[t].token.src] # op[t].token.n - 1
        /\ HoldsLock(u)

\* ------------------------------------------- tokens out of sequence

\* The tokens a caller must not present: one the checkpoint has already
\* let through, and one of a source that feeds another checkpoint.
elsewhere == "elsewhere"

UsedTokens ==
    {[src |-> s, n |-> n, tag |-> ""] : s \in Sources, n \in 1 .. MaxCalls}
        \cup {[src |-> elsewhere, n |-> 1, tag |-> ""]}

\* The token is of a source the checkpoint does not serve, or is not
\* greater than the last one of its source the checkpoint let through.
TokenViolates(tok) ==
    IF tok.src \in Sources THEN tok.n <= hwm[tok.src] ELSE TRUE

\* A storage operation is called with a token that violates the order.
BeginTokenOpReusing(t, o, tok) ==
    /\ CanBegin(t)
    /\ slice = "alive"
    /\ o.name \in TokenDataOps
    /\ tok \in UsedTokens
    /\ TokenViolates(tok)
    /\ ncalls' = ncalls + 1
    /\ ret' = [ret EXCEPT ![t] = NoRet]
    /\ op' = [op EXCEPT ![t] = o @@ [token |-> tok, caller |-> home_thread]]
    /\ pc' = [pc EXCEPT ![t] = AfterEntry(o.name)]
    /\ thread' = [thread EXCEPT ![t] = home_thread]
    /\ UNCHANGED <<sb, recency, slice, lock, hwm, issued, txn, seen, aborted, store,
                   invoked, clock_due, pristine>>
    /\ lane' = IF AfterEntry(o.name) = "algo" THEN Append(lane, t) ELSE lane
    /\ UNCHANGED archive

\* One of the two accessors that take a token is called with such a token.
BeginAccessorReusing(t, name, a, tok) ==
    /\ CanBegin(t)
    /\ slice = "alive"
    /\ name \in Accessors \cap TokenCarrying
    /\ a \in ArgsOf(name)
    /\ tok \in UsedTokens
    /\ TokenViolates(tok)
    /\ ncalls' = ncalls + 1
    /\ ret' = [ret EXCEPT ![t] = NoRet]
    /\ op' = [op EXCEPT ![t] =
                [name |-> name, arg |-> a, caller |-> home_thread, token |-> tok]]
    /\ pc' = [pc EXCEPT ![t] = AfterEntry(name)]
    /\ thread' = [thread EXCEPT ![t] = EntryThread(name, home_thread)]
    /\ clock_due' = IF name = "set_replication_clock"
                    THEN Max(clock_due, a) ELSE clock_due
    /\ UNCHANGED <<sb, recency, slice, lock, hwm, issued, txn, seen, aborted, store,
                   invoked, pristine>>
    /\ UNCHANGED lane
    /\ UNCHANGED archive

\* check_through on a token that violates the order: a fatal assertion.
CheckThroughFails(t) ==
    /\ ~aborted
    /\ pc[t] = "check"
    /\ TokenViolates(op[t].token)
    /\ aborted' = TRUE
    /\ pc' = [pc EXCEPT ![t] = "crashed"]
    /\ UNCHANGED <<sb, recency, slice, lock, hwm, issued, op, thread, txn, seen, ret,
                   ncalls, store, invoked, clock_due, pristine>>
    /\ UNCHANGED lane
    /\ UNCHANGED archive

\* Two tasks call get, change and the two setters that take a token, with
\* the next token of source s1 or with a token that violates the order.
NextViolation ==
    \/ ConstructSlice
    \/ \E t \in MetaTasks, o \in GetCalls :
          BeginTokenOp(t, o, "s1", home_thread, TRUE)
    \/ \E t \in MetaTasks :
          BeginTokenOp(t, [name |-> "change", m |-> SetKV, castime |-> OrderCastime],
                       "s1", home_thread, TRUE)
    \/ \E t \in MetaTasks, name \in {"set_replication_clock", "set_last_sync"} :
          BeginAccessor(t, name, MaxTime, "s1", home_thread, TRUE)
    \/ \E t \in MetaTasks, o \in GetCalls, tok \in UsedTokens :
          BeginTokenOpReusing(t, o, tok)
    \/ \E t \in MetaTasks, tok \in UsedTokens :
          BeginTokenOpReusing(t, [name |-> "change", m |-> SetKV,
                                  castime |-> OrderCastime], tok)
    \/ \E t \in MetaTasks, name \in {"set_replication_clock", "set_last_sync"},
          tok \in UsedTokens :
          BeginAccessorReusing(t, name, distant_past, tok)
    \/ \E t \in MetaTasks : CheckThrough(t)
    \/ \E t \in MetaTasks : CheckThroughFails(t)
    \/ \E t \in MetaTasks : RunTokenOp(t)
    \/ \E t \in MetaTasks : OpenTransaction(t)
    \/ \E t \in MetaTasks : LockSuperblock(t)
    \/ \E t \in MetaTasks : ClockRead(t)
    \/ \E t \in MetaTasks : SetterWrite(t)
    \/ \E t \in MetaTasks : LeaveScope(t)

SpecViolation == InitOrder /\ [][NextViolation]_vars

\* The call of t holds a token that violates the order and that the
\* checkpoint has not returned.
HoldsViolatingToken(t) ==
    /\ op[t].name \in TokenCarrying
    /\ op[t].token.tag = ""
    /\ TokenViolates(op[t].token)

\* C12: a call of an operation that takes a token, given a token that
\* violates the order, is at the checkpoint or has ended there in a fatal
\* assertion, with no transaction opened and no B-tree function invoked; the
\* step that ends it leaves the store, the superblock and the checkpoint's
\* marks as they were, and returns nothing.
C12_ViolationStopsAtCheckpoint ==
    /\ [](\A t \in Tasks :
            HoldsViolatingToken(t) =>
                /\ pc[t] \in {"check", "crashed"}
                /\ ~ReachedStorage(t)
                /\ ret[t] = NoRet)
    /\ [][\A t \in Tasks :
            (HoldsViolatingToken(t) /\ pc[t] = "check" /\ pc'[t] # "check") =>
                /\ pc'[t] = "crashed"
                /\ aborted'
                /\ UNCHANGED <<store, sb, hwm>>]_vars

\* The same for the operations that call check_through.
CheckedOpsViolationStops ==
    /\ [](\A t \in Tasks :
            (HoldsViolatingToken(t) /\ op[t].name \in CheckedOps) =>
                /\ pc[t] \in {"check", "crashed"}
                /\ ~ReachedStorage(t)
                /\ ret[t] = NoRet)
    /\ [][\A t \in Tasks :
            (HoldsViolatingToken(t) /\ pc[t] = "check" /\ pc'[t] # "check") =>
                /\ pc'[t] = "crashed"
                /\ aborted'
                /\ UNCHANGED <<store, sb, hwm>>]_vars

\* A change() given a used token has ended at the checkpoint.
CheckedOpsViolationSeen ==
    \E t \in Tasks :
        /\ pc[t] = "crashed"
        /\ op[t].name = "change"
        /\ op[t].token.src = "s1"
        /\ op[t].token.n <= hwm["s1"]
        /\ store[<<107>>].present

\* --------------------------------------------- the high-water mark

\* The call of t has come back from check_through in this step.
ReturnsFromCheckThrough(t) ==
    /\ pc[t] = "check"
    /\ pc'[t] \notin {"check", "crashed"}

\* C13: the checkpoint's mark of every source is the bottom token until
\* the slice is constructed and never decreases; a token check_through
\* returns carries the checkpoint's tag, is not smaller than the mark its
\* source had, and is the mark of its source afterwards.
C13_HighWaterMark ==
    /\ [](slice = "none" => \A s \in Sources : hwm[s] = 0)
    /\ [][/\ \A s \in Sources : hwm'[s] >= hwm[s]
          /\ \A t \in Tasks :
                ReturnsFromCheckThrough(t) =>
                    /\ op'[t].token.tag = "slice"
                    /\ op'[t].token.n = op[t].token.n
                    /\ op'[t].token.n >= hwm[op[t].token.src]
                    /\ hwm'[op[t].token.src] = op'[t].token.n]_vars

\* The second token of a source has been returned by check_through.
C13_Witness ==
    \E t \in Tasks :
        /\ op[t].name \in CheckedOps
        /\ op[t].token.tag = "slice"
        /\ op[t].token.n = 2
        /\ hwm[op[t].token.src] = 2

\* ------------------------------------------------ the backfill account

\* The cache accounts: the one the constructor creates with
\* BACKFILL_CACHE_PRIORITY, and the one transactions have otherwise.
CacheAccounts == {"backfill_account", "default_account"}

\* Two tasks write a key and backfill through both overloads; the caller of
\* the second overload brings a transaction on either account.
NextBackfill ==
    \/ ConstructSlice
    \/ \E t \in MetaTasks, s \in Sources :
          BeginTokenOp(t, [name |-> "change", m |-> SetKV, castime |-> OrderCastime],
                       s, home_thread, TRUE)
    \/ \E t \in MetaTasks, s \in Sources, o \in BackfillCalls :
          BeginTokenOp(t, o, s, home_thread, TRUE)
    \/ \E t \in MetaTasks, kr \in KeyRanges, ts \in {distant_past, MaxTime},
          acct \in CacheAccounts, caller \in Threads :
          BeginSuperblockOp(t, [name |-> "backfill_with_superblock",
                                key_range |-> kr, since_when |-> ts,
                                txn_account |-> acct], caller)
    \/ \E t \in MetaTasks : CheckThrough(t)
    \/ \E t \in MetaTasks : RunTokenOp(t)
    \/ \E t \in MetaTasks, debug \in BOOLEAN : RunSuperblockOp(t, debug)
    \/ \E t \in MetaTasks : LeaveScope(t)

SpecBackfill == InitOrder /\ [][NextBackfill]_vars

\* C14: every btree_backfill a call of backfill() has invoked, through
\* either overload, does its cache I/O on the slice's backfill account.
C14_BackfillAccount ==
    \A t \in Tasks :
        \A i \in 1 .. Len(invoked[t]) :
            invoked[t][i].alg = "btree_backfill"
                => invoked[t][i].account = "backfill_account"

\* The same for the overload that takes a sequence group and a token.
TokenBackfillOnAccount ==
    \A t \in Tasks :
        (op[t].name = "backfill" /\ pc[t] = "exit")
            => /\ Len(invoked[t]) = 1
               /\ invoked[t][1].alg = "btree_backfill"
               /\ invoked[t][1].account = "backfill_account"

TokenBackfillSeen ==
    \E t \in Tasks :
        /\ op[t].name = "backfill"
        /\ pc[t] = "exit"
        /\ ret[t] = [kind |-> "void"]
        /\ invoked[t][1].returned = {<<107>>}

\* ------------------------------------------------- a set, then a get

\* The key range ["a", "z").
AToZ == key_range_t(key_range_closed, <<97>>, key_range_open, <<122>>)

\* The shard is created with key range ["a", "z") and the slice opened on
\* it; source s1 gives its first token to change(set("k", "v")) and its
\* later tokens to get("k"), source s2 gives its tokens to get("k"); the
\* calls run on three tasks in any interleaving.
NextCausal ==
    \/ \E t \in Tasks : BeginCreate(t, AToZ)
    \/ \E t \in Tasks : CreateBody(t)
    \/ ConstructSlice
    \/ \E t \in Tasks :
          /\ pristine
          /\ issued["s1"] = 0
          /\ BeginTokenOp(t, [name |-> "change", m |-> SetKV,
                              castime |-> OrderCastime], "s1", home_thread, TRUE)
    \/ \E t \in Tasks, o \in GetCalls :
          /\ pristine
          /\ issued["s1"] >= 1
          /\ BeginTokenOp(t, o, "s1", home_thread, TRUE)
    \/ \E t \in Tasks, o \in GetCalls :
          /\ pristine
          /\ BeginTokenOp(t, o, "s2", home_thread, TRUE)
    \/ \E t \in Tasks : OpenTransaction(t)
    \/ \E t \in Tasks : LockSuperblock(t)
    \/ \E t \in Tasks : CheckThrough(t)
    \/ \E t \in Tasks : RunTokenOp(t)
    \/ \E t \in Tasks : LeaveScope(t)

SpecCausal == Init /\ [][NextCausal]_vars

\* C15: on the shard created with key range ["a", "z"), a get("k") that
\* has run with a token of the source whose earlier token went to
\* change(set("k", "v")) has returned "v".
C15_GetAfterSet ==
    \A t \in Tasks :
        (/\ pc[t] = "exit"
         /\ op[t].name = "get"
         /\ op[t].token.src = "s1"
         /\ sb = CreateSuperblock(AToZ))
            => ret[t] = [kind |-> "get_result_t",
                         result |-> [found |-> TRUE, value |-> <<118>>]]

\* Such a get, begun while the set had not yet passed the checkpoint, has
\* returned "v".
C15_Witness ==
    \E t \in Tasks :
        /\ pc[t] = "exit"
        /\ op[t].name = "get"
        /\ op[t].token = [src |-> "s1", n |-> 2, tag |-> "slice"]
        /\ sb = CreateSuperblock(AToZ)
        /\ ret[t].result = [found |-> TRUE, value |-> <<118>>]
        /\ \E u \in Tasks \ {t} : pc[u] = "exit" /\ op[u].name = "change"

\* ------------------------------------------- the versioned archive

\* cluster_version_t: a contiguous enumeration from v1_13 to
\* v1_13_2_is_latest.
v1_13 == 0
v1_13_2_is_latest == 1
ClusterVersions == v1_13 .. v1_13_2_is_latest

\* The values an int8_t and a byte can hold.
Int8 == -128 .. 127
Bytes == 0 .. 255

\* The primitive int8_t archive: one byte, two's complement.
SerializeInt8(wm, u) == wm \o <<u % 256>>

DeserializeInt8(s) ==
    IF Len(s) < 1
    THEN [res |-> "SOCK_EOF", value |-> 0]
    ELSE [res |-> "SUCCESS", value |-> IF s[1] >= 128 THEN s[1] - 256 ELSE s[1]]

\* The ranged deserialize of cluster_version_t without its upper bound.
deserialize_cluster_version_no_upper(s) ==
    LET r == DeserializeInt8(s)
    IN  IF r.res # "SUCCESS" THEN [res |-> r.res, thing |-> <<>>]
        ELSE IF r.value < v1_13
        THEN [res |-> "RANGE_ERROR", thing |-> <<>>]
        ELSE [res |-> "SUCCESS", thing |-> <<r.value>>]

\* serialize_cluster_version: the tag as an int8_t.
serialize_cluster_version(wm, v) == SerializeInt8(wm, v)

\* deserialize_cluster_version: an int8_t, checked against the range from
\* v1_13 to v1_13_2_is_latest; thing is written on success only.
deserialize_cluster_version(s) ==
    LET r == DeserializeInt8(s)
    IN  IF r.res # "SUCCESS" THEN [res |-> r.res, thing |-> <<>>]
        ELSE IF r.value < v1_13 \/ r.value > v1_13_2_is_latest
        THEN [res |-> "RANGE_ERROR", thing |-> <<>>]
        ELSE [res |-> "SUCCESS", thing |-> <<r.value>>]

\* A registered type: an unsigned number, which version v1_13 writes as two
\* bytes, high byte first, and version v1_13_2 as one byte below 128 and
\* else as two bytes of seven bits, low bits first.
Archived == 0 .. MaxArchived

serialize(W, wm, value) ==
    IF W = v1_13
    THEN wm \o <<value \div 256, value % 256>>
    ELSE IF value < 128 THEN wm \o <<value>>
    ELSE wm \o <<128 + (value % 128), value \div 128>>

deserialize(W, s) ==
    IF W = v1_13
    THEN IF Len(s) < 2 THEN [res |-> "SOCK_EOF", thing |-> <<>>]
         ELSE [res |-> "SUCCESS", thing |-> <<256 * s[1] + s[2]>>]
    ELSE IF Len(s) < 1 THEN [res |-> "SOCK_EOF", thing |-> <<>>]
    ELSE IF s[1] < 128 THEN [res |-> "SUCCESS", thing |-> <<s[1]>>]
    ELSE IF Len(s) < 2 THEN [res |-> "SOCK_EOF", thing |-> <<>>]
    ELSE [res |-> "SUCCESS", thing |-> <<(s[1] - 128) + 128 * s[2]>>]

serialized_size(W, thing) ==
    IF W = v1_13 THEN 2 ELSE IF thing < 128 THEN 1 ELSE 2

\* serialize_for_version: the switch over the version.
serialize_for_version(version, wm, value) ==
    CASE version = v1_13 ->
            [outcome |-> "returned", wm |-> serialize(v1_13, wm, value)]
      [] version = v1_13_2_is_latest ->
            [outcome |-> "returned", wm |-> serialize(v1_13_2_is_latest, wm, value)]
      [] OTHER -> [outcome |-> "unreachable", wm |-> wm]

\* deserialize_for_version with the two cases exchanged.
deserialize_for_version_exchanged(version, s) ==
    CASE version = v1_13 ->
            [outcome |-> "returned"] @@ deserialize(v1_13_2_is_latest, s)
      [] version = v1_13_2_is_latest ->
            [outcome |-> "returned"] @@ deserialize(v1_13, s)
      [] OTHER -> [outcome |-> "unreachable", res |-> "", thing |-> <<>>]

\* deserialize_for_version: the switch over the version.
deserialize_for_version(version, s) ==
    CASE version = v1_13 ->
            [outcome |-> "returned"] @@ deserialize(v1_13, s)
      [] version = v1_13_2_is_latest ->
            [outcome |-> "returned"] @@ deserialize(v1_13_2_is_latest, s)
      [] OTHER -> [outcome |-> "unreachable", res |-> "", thing |-> <<>>]

\* serialized_size_for_version: the switch over the version.
serialized_size_for_version(version, thing) ==
    CASE version = v1_13 ->
            [outcome |-> "returned", size |-> serialized_size(v1_13, thing)]
      [] version = v1_13_2_is_latest ->
            [outcome |-> "returned",
             size |-> serialized_size(v1_13_2_is_latest, thing)]
      [] OTHER -> [outcome |-> "unreachable", size |-> 0]

\* The variables of the slice.
slice_vars == <<sb, recency, slice, lock, hwm, issued, pc, op, thread, txn, seen,
                ret, ncalls, aborted, store, invoked, lane, clock_due, pristine>>

\* The version arguments: the two versions and the values next to them.
VersionArguments == (v1_13 - 1) .. (v1_13_2_is_latest + 1)

\* serialize_cluster_version(&wm, v) on an empty write message.
WriteClusterVersion(v) ==
    /\ archive.phase = "empty"
    /\ archive' = [archive EXCEPT !.phase = "tag", !.from = "written", !.version = v,
                                  !.stream = serialize_cluster_version(<<>>, v)]
    /\ UNCHANGED slice_vars

\* A stream arrives from elsewhere: nothing, or one byte.
ReceiveTag(s) ==
    /\ archive.phase = "empty"
    /\ archive' = [archive EXCEPT !.phase = "tag", !.from = "received", !.stream = s]
    /\ UNCHANGED slice_vars

\* deserialize_cluster_version(&stream, &thing)
ReadClusterVersion ==
    /\ archive.phase = "tag"
    /\ LET r == deserialize_cluster_version(archive.stream)
       IN  archive' = [archive EXCEPT !.phase = "tag_read", !.res = r.res,
                                      !.thing = r.thing]
    /\ UNCHANGED slice_vars

\* serialize_for_version(version, &wm, value) on an empty write message.
WriteForVersion(version, value) ==
    /\ archive.phase = "empty"
    /\ LET r == serialize_for_version(version, <<>>, value)
       IN  archive' = [archive EXCEPT
                         !.phase = IF r.outcome = "returned" THEN "value"
                                   ELSE "unreachable",
                         !.from = "written", !.version = version, !.value = value,
                         !.stream = r.wm]
    /\ UNCHANGED slice_vars

\* serialized_size_for_version(version, value) of the value written.
SizeForVersion ==
    /\ archive.phase = "value"
    /\ LET r == serialized_size_for_version(archive.version, archive.value)
       IN  archive' = [archive EXCEPT !.phase = "sized", !.size = r.size]
    /\ UNCHANGED slice_vars

\* deserialize_for_version(version, &stream, &thing) of what was written.
ReadForVersion ==
    /\ archive.phase \in {"value", "sized"}
    /\ LET r == deserialize_for_version(archive.version, archive.stream)
       IN  archive' = [archive EXCEPT !.phase = "value_read", !.res = r.res,
                                      !.thing = r.thing]
    /\ UNCHANGED slice_vars

NextArchive ==
    \/ \E v \in ClusterVersions : WriteClusterVersion(v)
    \/ \E b \in Bytes : ReceiveTag(<<b>>)
    \/ ReceiveTag(<<>>)
    \/ ReadClusterVersion
    \/ \E version \in VersionArguments, value \in Archived :
          WriteForVersion(version, value)
    \/ SizeForVersion
    \/ ReadForVersion

SpecArchive == InitOrder /\ [][NextArchive]_vars

\* The number a one-byte stream holds as an int8_t.
TagValue(s) == IF s[1] >= 128 THEN s[1] - 256 ELSE s[1]

\* C16: deserialize_cluster_version, read from a tag outside the range from
\* v1_13 to v1_13_2_is_latest, has failed with a range error and written no
\* version; read from what serialize_cluster_version wrote for a version,
\* it has succeeded with that version.
C16_ClusterVersionRange ==
    archive.phase = "tag_read" =>
        /\ (Len(archive.stream) = 1 /\ TagValue(archive.stream) \notin ClusterVersions)
              => (archive.res = "RANGE_ERROR" /\ archive.thing = <<>>)
        /\ archive.from = "written"
              => (archive.res = "SUCCESS" /\ archive.thing = <<archive.version>>)

\* A tag just above the range has been refused.
C16_Witness ==
    /\ archive.phase = "tag_read"
    /\ archive.from = "received"
    /\ archive.stream = <<v1_13_2_is_latest + 1>>
    /\ archive.res = "RANGE_ERROR"

\* C17: what serialize_for_version wrote for a version is what that
\* version's encoder writes and nothing more; serialized_size_for_version
\* for the version has returned its length, and deserialize_for_version for
\* the version has read the value back.
C17_RoundTripAndSize ==
    /\ archive.phase \in {"value", "sized", "value_read"}
          => /\ archive.version \in ClusterVersions
             /\ archive.stream = serialize(archive.version, <<>>, archive.value)
    /\ archive.phase = "sized" => archive.size = Len(archive.stream)
    /\ archive.phase = "value_read"
          => (archive.res = "SUCCESS" /\ archive.thing = <<archive.value>>)

\* A value the two versions write differently has been read back.
C17_Witness ==
    /\ archive.phase = "value_read"
    /\ archive.version = v1_13
    /\ archive.value = MaxArchived
    /\ archive.thing = <<MaxArchived>>
    /\ serialize(v1_13, <<>>, MaxArchived)
          # serialize(v1_13_2_is_latest, <<>>, MaxArchived)

\* ------------------------------------------------- lock contention

\* Two tasks on the home thread call the accessors on an open slice, and
\* every call that can take a step takes one in the end: a task the
\* scheduler can run is run.
NextContend ==
    \/ ConstructSlice
    \/ \E t \in MetaTasks, name \in Accessors, a \in Ids :
          BeginAccessor(t, name, a, "s1", home_thread, TRUE)
    \/ \E t \in MetaTasks : CheckThrough(t)
    \/ \E t \in MetaTasks : OpenTransaction(t)
    \/ \E t \in MetaTasks : LockSuperblock(t)
    \/ \E t \in MetaTasks : GetterRead(t)
    \/ \E t \in MetaTasks : ClockRead(t)
    \/ \E t \in MetaTasks : SetterWrite(t)
    \/ \E t \in MetaTasks : LeaveScope(t)

FairContend ==
    \A t \in MetaTasks :
        /\ WF_vars(CheckThrough(t))
        /\ WF_vars(OpenTransaction(t))
        /\ WF_vars(LockSuperblock(t))
        /\ WF_vars(GetterRead(t))
        /\ WF_vars(ClockRead(t))
        /\ WF_vars(SetterWrite(t))
        /\ WF_vars(LeaveScope(t))

SpecContend == InitOrder /\ [][NextContend]_vars /\ FairContend

\* The accessor of t waits for the superblock lock, which another task holds.
Contended(t) ==
    /\ pc[t] = "lock"
    /\ op[t].name \in Accessors
    /\ ~CanLock(SuperblockLockMode(op[t].name))

\* The accessor of t has run under the lock and is about to return: a getter
\* the value of its field, a setter nothing.
Completed(t) ==
    /\ pc[t] = "exit"
    /\ HoldsLock(t)
    /\ op[t].name \in Getters => ret[t] = [kind |-> "value",
                                           value |-> GetField(op[t].name, sb)]
    /\ op[t].name \in Setters => ret[t] = NoRet

FieldOf(name) ==
    CASE name \in {"set_replication_clock", "get_replication_clock"} ->
            "replication_clock"
      [] name \in {"set_last_sync", "get_last_sync"} -> "last_sync"
      [] name \in {"set_replication_master_id", "get_replication_master_id"} ->
            "replication_master_id"
      [] name \in {"set_replication_slave_id", "get_replication_slave_id"} ->
            "replication_slave_id"

\* The call of t takes a step.
Steps(t) == pc'[t] # pc[t]

\* The accessor t is in, or begins in this step.
SteppingName(t) == IF op[t].name = "none" THEN op'[t].name ELSE op[t].name

\* C19: a step of a setter leaves every superblock field but its own as it
\* was, and the step that writes leaves its own field at the value given
\* (for the clock, the larger of that and the old one); a step of a getter
\* leaves the superblock as it was.
C19_SetterFrame ==
    [][\A t \in Tasks :
          /\ (Steps(t) /\ SteppingName(t) \in Setters) =>
                /\ \A f \in DOMAIN sb \ {FieldOf(SteppingName(t))} : sb'[f] = sb[f]
                /\ (pc[t] = "write") =>
                      sb'[FieldOf(op[t].name)] =
                          IF op[t].name = "set_replication_clock"
                          THEN Max(sb.replication_clock, op[t].arg)
                          ELSE op[t].arg
                /\ (pc[t] # "write") => sb' = sb
          /\ (Steps(t) /\ SteppingName(t) \in Getters) => sb' = sb]_vars

\* set_replication_master_id has written a master id other than the slave id.
C19_Witness ==
    \E t \in Tasks :
        /\ pc[t] = "exit"
        /\ op[t].name = "set_replication_master_id"
        /\ sb.replication_master_id = op[t].arg
        /\ sb.replication_slave_id # op[t].arg

\* ------------------------------------------------------ scoped resources

\* C20: a task that is in no call holds no lock on the superblock and has
\* no open transaction, and when no call is under way the superblock lock
\* is free.
C20_ScopedResources ==
    /\ \A t \in Tasks : pc[t] = "idle" => (~HoldsLock(t) /\ txn[t] = "none")
    /\ (\A t \in Tasks : pc[t] = "idle")
          => lock = [writer |-> NoTask, readers |-> {}]

\* create() and two accessors have returned, a setter among them.
C20_Witness ==
    /\ \A t \in Tasks : pc[t] = "idle"
    /\ ncalls = MaxCalls
    /\ slice = "alive"
    /\ sb.magic = expected_magic
    /\ sb.last_sync = MaxTime
    /\ sb.root_block = NULL_BLOCK_ID

\* ------------------------------------------------------ last writer wins

\* The setters that assign the value they are given, and their getters.
PlainSetters == Setters \ {"set_replication_clock"}
PlainGetters == Getters \ {"get_replication_clock"}
PlainFields == {"last_sync", "replication_master_id", "replication_slave_id"}

\* C21: set_last_sync, set_replication_master_id and
\* set_replication_slave_id store the value given, whatever was stored
\* before: when such a setter has written, its field holds its argument;
\* the field changes only in the write of its own setter; and the getter
\* returns the field as it stands, that is the argument of the last setter
\* that wrote, also when that is smaller than the value before.
C21_LastWriterWins ==
    /\ [](\A t \in Tasks :
            (pc[t] = "exit" /\ op[t].name \in PlainSetters)
                => sb[FieldOf(op[t].name)] = op[t].arg)
    /\ [](\A t \in Tasks :
            (pc[t] = "exit" /\ op[t].name \in PlainGetters)
                => ret[t] = [kind |-> "value", value |-> sb[FieldOf(op[t].name)]])
    /\ [][\A f \in PlainFields :
            sb'[f] # sb[f] =>
                \E t \in Tasks :
                    /\ pc[t] = "write" /\ pc'[t] = "exit"
                    /\ op[t].name \in PlainSetters
                    /\ FieldOf(op[t].name) = f
                    /\ sb'[f] = op[t].arg]_vars

\* The shard starts with last_sync 1; the second call on the slice is a
\* get_last_sync that returns 0, the argument of the set_last_sync before it.
C21_Witness ==
    \E t \in Tasks :
        /\ ncalls = 2
        /\ pc[t] = "exit"
        /\ op[t].name = "get_last_sync"
        /\ ret[t] = [kind |-> "value", value |-> 0]
        /\ sb.last_sync = 0

====
